---- MODULE Spec2Model ----
(***************************************************************************)
(* any2md / mdconv: document -> Markdown converters and their text         *)
(* utilities.  Texts are sequences of one-character strings.               *)
(***************************************************************************)
EXTENDS Integers, Sequences, FiniteSets, TLC

VARIABLES fs, calls, last, probe

vars == <<fs, calls, last, probe>>

(***************************************************************************)
(* Generic text helpers                                                    *)
(***************************************************************************)

\* the characters Python's str.isspace / regex \s accept, among those modelled
SpaceChars == {" ", "\t", "\n"}

IsSpace(c) == c \in SpaceChars

\* the characters of the regex class [ \t]
HSpaceChars == {" ", "\t"}

IsHSpace(c) == c \in HSpaceChars

\* t with only the positions i for which Keep[i] holds
FilterIdx(t, Keep) ==
    LET f[i \in 0..Len(t)] ==
            IF i = 0 THEN <<>>
            ELSE IF Keep[i] THEN Append(f[i-1], t[i]) ELSE f[i-1]
    IN  f[Len(t)]

\* str.replace(old, new) for a one-character old and a text new
ReplaceChar(t, old, new) ==
    LET f[i \in 0..Len(t)] ==
            IF i = 0 THEN <<>>
            ELSE IF t[i] = old THEN f[i-1] \o new ELSE Append(f[i-1], t[i])
    IN  f[Len(t)]

\* str.lstrip / str.rstrip / str.strip of the characters in the set S
LStripLen(t, S) ==
    IF \A i \in 1..Len(t) : t[i] \in S THEN Len(t)
    ELSE (CHOOSE i \in 1..Len(t) :
            /\ t[i] \notin S
            /\ \A j \in 1..(i-1) : t[j] \in S) - 1

RStripEnd(t, S) ==
    IF \A i \in 1..Len(t) : t[i] \in S THEN 0
    ELSE CHOOSE i \in 1..Len(t) :
            /\ t[i] \notin S
            /\ \A j \in (i+1)..Len(t) : t[j] \in S

RStrip(t, S) == SubSeq(t, 1, RStripEnd(t, S))

StripBoth(t, S) ==
    LET r == RStrip(t, S)
    IN  SubSeq(r, LStripLen(r, S) + 1, Len(r))

\* re.sub(c+, new, t): every maximal run of the character c becomes new
CollapseRuns(t, c, new) ==
    LET f[i \in 0..Len(t)] ==
            IF i = 0 THEN <<>>
            ELSE IF t[i] # c THEN Append(f[i-1], t[i])
            ELSE IF i > 1 /\ t[i-1] = c THEN f[i-1]
            ELSE f[i-1] \o new
    IN  f[Len(t)]

\* position of the last occurrence of c in t, 0 when there is none (str.rfind + 1)
RFind(t, c) ==
    IF \E i \in 1..Len(t) : t[i] = c
    THEN CHOOSE i \in 1..Len(t) : t[i] = c /\ \A j \in (i+1)..Len(t) : t[j] # c
    ELSE 0

\* position of the first occurrence of a character of set S at or after from,
\* Len(t)+1 when there is none
FindAny(t, S, from) ==
    IF \E i \in from..Len(t) : t[i] \in S
    THEN CHOOSE i \in from..Len(t) : t[i] \in S /\ \A j \in from..(i-1) : t[j] \notin S
    ELSE Len(t) + 1

\* the smallest / largest number of a non-empty set of numbers
Min(S) == CHOOSE m \in S : \A n \in S : m <= n

Max(S) == CHOOSE m \in S : \A n \in S : n <= m

(***************************************************************************)
(* src/mdconv/utils.py                                                     *)
(***************************************************************************)

MdExt == <<".", "m", "d">>

\* pathlib: Path(name).stem for a name without a path separator
PathStem(name) ==
    LET p == RFind(name, ".")
    IN  IF name = <<".">> THEN <<>>
        ELSE IF p > 1 /\ p < Len(name) THEN SubSeq(name, 1, p - 1)
        ELSE name

\* the characters of the class [,;:'"\u2014\u2013] (the two dashes are outside
\* the modelled alphabet)
RemovedChars == {",", ";", ":", "'", "\""}

\* sanitize_filename with the stem cut at the first dot (name.split(".")[0])
sanitize_filename_first_dot(name) ==
    LET stem0 == SubSeq(name, 1, FindAny(name, {"."}, 1) - 1)
        stem1 == ReplaceChar(stem0, " ", <<"_">>)
        stem2 == FilterIdx(stem1, [i \in 1..Len(stem1) |-> stem1[i] \notin RemovedChars])
        stem3 == CollapseRuns(stem2, "_", <<"_">>)
        stem4 == StripBoth(stem3, {"_"})
    IN  stem4 \o MdExt

sanitize_filename(name) ==
    LET stem0 == PathStem(name)
        stem1 == ReplaceChar(stem0, " ", <<"_">>)
        stem2 == FilterIdx(stem1, [i \in 1..Len(stem1) |-> stem1[i] \notin RemovedChars])
        stem3 == CollapseRuns(stem2, "_", <<"_">>)
        stem4 == StripBoth(stem3, {"_"})
    IN  stem4 \o MdExt

\* re.sub(r"\n{4,}", "\n\n\n", text)
CollapseNewlines(text) ==
    FilterIdx(text, [i \in 1..Len(text) |->
        ~(/\ i > 3
          /\ text[i] = "\n" /\ text[i-1] = "\n"
          /\ text[i-2] = "\n" /\ text[i-3] = "\n")])

\* re.sub(r"[ \t]+$", "", text, flags=re.MULTILINE)
StripLineEnds(text) ==
    FilterIdx(text, [i \in 1..Len(text) |->
        ~(/\ IsHSpace(text[i])
          /\ \E e \in i..Len(text) :
                /\ \A j \in i..e : IsHSpace(text[j])
                /\ (e = Len(text) \/ text[e+1] = "\n"))])

clean_markdown(text) ==
    LET t1 == CollapseNewlines(text)
        t2 == StripLineEnds(t1)
    IN  Append(RStrip(t2, SpaceChars), "\n")

\* value.replace("\\", "\\\\").replace('"', '\\"')
escape_yaml_string(value) ==
    ReplaceChar(ReplaceChar(value, "\\", <<"\\", "\\">>), "\"", <<"\\", "\"">>)

\* start positions of lines: where the regex anchor ^ matches under re.MULTILINE
LineStarts(t) == {i \in 1..Len(t) : i = 1 \/ t[i-1] = "\n"}

\* number of consecutive characters of the set S from position i on
RunLen(t, i, S) ==
    IF \A j \in i..Len(t) : t[j] \in S THEN Len(t) - i + 1
    ELSE (CHOOSE e \in i..Len(t) : t[e] \notin S /\ \A j \in i..(e-1) : t[j] \in S) - i

\* last position of the line that contains position i
LineEnd(t, i) == FindAny(t, {"\n"}, i) - 1

\* re.search(r"^#{1,3}\s+(.+)", text, re.MULTILINE) tried at line start i:
\* the position where group 1 starts, 0 when the pattern does not match at i.
\* \s+ is greedy and gives characters back until (.+) finds a non-newline.
HeadingGroupStart(t, i) ==
    LET h  == RunLen(t, i, {"#"})
        ws == i + h
        w  == RunLen(t, ws, SpaceChars)
        ms == {m \in 1..w : ws + m <= Len(t) /\ t[ws + m] # "\n"}
    IN  IF h \in 1..3 /\ ms # {} THEN ws + Max(ms) ELSE 0

\* the line starts at which the heading pattern matches
HeadingMatches(t) == {i \in LineStarts(t) : HeadingGroupStart(t, i) # 0}

\* group 1, (.+), from position g: the rest of g's line
GroupAt(t, g) == SubSeq(t, g, LineEnd(t, g))

\* match.group(1) of the first match
FirstHeadingGroup(t) ==
    GroupAt(t, HeadingGroupStart(t, Min(HeadingMatches(t))))

\* the cleanup of the matched title: strip, drop *+, _+ -> " ", strip
CleanTitle(group) ==
    LET t0 == StripBoth(group, SpaceChars)
        t1 == FilterIdx(t0, [i \in 1..Len(t0) |-> t0[i] # "*"])
        t2 == CollapseRuns(t1, "_", <<" ">>)
    IN  StripBoth(t2, SpaceChars)

MinTitleLen == 10

TitleFallback(fallback) == StripBoth(ReplaceChar(fallback, "_", <<" ">>), SpaceChars)

extract_title(markdown_text, fallback) ==
    LET \* if len(title) > 10: return title; else fall through to the fallback
        checked(title) ==
            IF Len(title) > MinTitleLen THEN title ELSE TitleFallback(fallback)
    IN  IF HeadingMatches(markdown_text) # {}
        THEN checked(CleanTitle(FirstHeadingGroup(markdown_text)))
        ELSE TitleFallback(fallback)

\* re.sub(r"\[([^\]]+)\]\([^)]+\)", r"\1", text).  A match at i is
\* "[" label "](" url ")" with a non-empty label that runs to the first "]"
\* and a non-empty url that runs to the first ")": LinkEnd is the position of
\* that ")", 0 when the pattern does not match at i.
LinkEnd(t, i) ==
    LET j == FindAny(t, {"]"}, i + 1)
        k == FindAny(t, {")"}, j + 2)
    IN  IF /\ t[i] = "["
           /\ j <= Len(t) /\ j > i + 1
           /\ j + 1 <= Len(t) /\ t[j+1] = "("
           /\ k <= Len(t) /\ k > j + 2
        THEN k ELSE 0

\* the text from position i on, with every leftmost match replaced by its label
RECURSIVE StripLinksFrom(_, _)
StripLinksFrom(t, i) ==
    LET ms == {m \in i..Len(t) : LinkEnd(t, m) # 0}
        \* the match at m: the text before it, its label, the rest after it
        replaced(m) ==
            SubSeq(t, i, m - 1) \o SubSeq(t, m + 1, FindAny(t, {"]"}, m + 1) - 1)
                \o StripLinksFrom(t, LinkEnd(t, m) + 1)
    IN  IF ms = {} THEN SubSeq(t, i, Len(t)) ELSE replaced(Min(ms))

strip_links(text) == StripLinksFrom(text, 1)

\* urllib.parse.urlparse, for URLs without ";" parameters: the characters a
\* scheme may contain, and the split into scheme, netloc and path
Letters == {"a", "b", "c", "d", "e", "f", "g", "h", "i", "j", "k", "l", "m",
            "n", "o", "p", "q", "r", "s", "t", "u", "v", "w", "x", "y", "z"}

SchemeChars == Letters \cup {"+", "-", "."}

UrlSchemeLen(url) ==
    LET c == FindAny(url, {":"}, 1)
    IN  IF /\ c <= Len(url) /\ c > 1
           /\ url[1] \in Letters
           /\ \A j \in 1..(c-1) : url[j] \in SchemeChars
        THEN c - 1 ELSE 0

UrlScheme(url) == SubSeq(url, 1, UrlSchemeLen(url))

\* the URL after its "scheme:" prefix
UrlRest(url) ==
    IF UrlSchemeLen(url) = 0 THEN url
    ELSE SubSeq(url, UrlSchemeLen(url) + 2, Len(url))

UrlHasNetloc(url) ==
    LET r == UrlRest(url) IN Len(r) >= 2 /\ r[1] = "/" /\ r[2] = "/"

UrlNetloc(url) ==
    LET r == UrlRest(url)
    IN  IF UrlHasNetloc(url)
        THEN SubSeq(r, 3, FindAny(r, {"/", "?", "#"}, 3) - 1)
        ELSE <<>>

UrlPath(url) ==
    LET r == UrlRest(url)
        a == IF UrlHasNetloc(url) THEN FindAny(r, {"/", "?", "#"}, 3) ELSE 1
    IN  SubSeq(r, a, FindAny(r, {"?", "#"}, a) - 1)

url_to_filename(url) ==
    LET raw0 == UrlNetloc(url) \o UrlPath(url)
        raw1 == ReplaceChar(ReplaceChar(raw0, ".", <<"_">>), "/", <<"_">>)
        raw2 == StripBoth(raw1, {"_"})
        raw3 == CollapseRuns(raw2, "_", <<"_">>)
    IN  raw3 \o MdExt

(***************************************************************************)
(* The file system, the sources and the external libraries                 *)
(***************************************************************************)

\* Optional values (Python's None): a sequence of length 0 or 1
None == <<>>
Some(x) == <<x>>

\* a path of the output directory: missing, or a file with its text
Absent == [exists |-> FALSE, data |-> <<>>]
File(d) == [exists |-> TRUE, data |-> d]

\* a file that was in the output directory before the run
OldData == <<"o","l","d","\n">>

\* Source documents.  md is what the conversion library returns for the
\* document (mammoth + markdownify, pymupdf4llm), pages what len(doc) returns.
DocxSources ==
    { [name |-> <<"r","\"","\\",".","d","o","c","x">>,
       md   |-> <<"#"," ","[","r","e","p","o","r","t"," ","o","f"," ","2","0","2","0","]","(","u",")",
                  "\n","\n","\n","\n","\n","s","e","e"," ","[","x","]","(","y",")"," ","\n">>,
       pages |-> 0] }

PdfSources ==
    { [name |-> <<"r","\\",".","p","d","f">>,
       md   |-> <<"#","#"," ","a","n","n","u","a","l"," ","r","e","p","o","r","t","\n","\n",
                  "t","e","x","t","\n">>,
       pages |-> 12] }

\* An HTML document: what trafilatura.extract returns for it (None when it
\* extracts nothing) and what markdownify returns for it.
HtmlDocs ==
    { [extract     |-> Some(<<"#"," ","p","a","g","e"," ","t","i","t","l","e"," ","x","y","z","\n","\n",
                              "[","a","]","(","b",")","\n">>),
       markdownify |-> <<"r","a","w","\n">>],
      [extract     |-> None,
       markdownify |-> <<"f","a","l","l","b","a","c","k"," ","t","e","x","t","\n">>] }

\* the HTML file of the run: a page the extractor handles
HtmlSources ==
    { [name |-> <<"p",".","h","t","m","l">>,
       doc  |-> CHOOSE d \in HtmlDocs : d.extract # None] }

Urls == { <<"h","t","t","p",":","/","/","h",".","i","o","/","p">>,
          <<"f","t","p",":","/","/","h",".","i","o","/","p">> }

\* every path a conversion can derive in the output directory
OutNames ==
    {sanitize_filename(s.name) : s \in DocxSources \cup PdfSources \cup HtmlSources}
        \cup {url_to_filename(u) : u \in Urls}

\* where a call can raise: the existence check, reading the source, the
\* conversion library, creating the directory, encoding or writing the text
\* once the output is open, printing the OK line
Faults == {"none", "exists", "read", "convert", "mkdir", "encode", "write", "print"}

\* the output name of every source file: sanitize_filename(path.name)
SourceNames == {s.name : s \in DocxSources \cup PdfSources \cup HtmlSources}

OutNameOf == [n \in SourceNames |-> sanitize_filename(n)]

UrlOutNameOf == [u \in Urls |-> url_to_filename(u)]

\* len(md_text.split())
WordCount(t) ==
    Cardinality({i \in 1..Len(t) : ~IsSpace(t[i]) /\ (i = 1 \/ IsSpace(t[i-1]))})

Digits == <<"0", "1", "2", "3", "4", "5", "6", "7", "8", "9">>

\* str(n) of the f-string
RECURSIVE ToDecimal(_)
ToDecimal(n) ==
    IF n < 10 THEN <<Digits[n + 1]>>
    ELSE Append(ToDecimal(n \div 10), Digits[(n % 10) + 1])

FmFence == <<"-","-","-","\n">>
FmTitleKey == <<"t","i","t","l","e",":"," ","\"">>
FmQuoteEnd == <<"\"","\n">>
FmSourceFileKey == <<"s","o","u","r","c","e","_","f","i","l","e",":"," ","\"">>
FmSourceUrlKey == <<"s","o","u","r","c","e","_","u","r","l",":"," ","\"">>
FmWordCountKey == <<"w","o","r","d","_","c","o","u","n","t",":"," ">>
FmPagesKey == <<"p","a","g","e","s",":"," ">>
FmTypeKey == <<"t","y","p","e",":"," ">>
FmClose == <<"-","-","-","\n","\n">>
TypeDocx == <<"d","o","c","x">>
TypePdf == <<"p","d","f">>
TypeHtml == <<"h","t","m","l">>

\* the f-string that builds the frontmatter block, from the values as they
\* are interpolated
Frontmatter(title, source_key, source, count_key, count, type) ==
    FmFence
        \o FmTitleKey \o title \o FmQuoteEnd
        \o source_key \o source \o FmQuoteEnd
        \o count_key \o ToDecimal(count) \o <<"\n">>
        \o FmTypeKey \o type \o <<"\n">>
        \o FmClose

(***************************************************************************)
(* The converters.  Each returns the outcome of one call: the output       *)
(* directory after it, how the call ended ("True", "False" or "raised"),   *)
(* the status line it printed, the steps it ran and the document it built. *)
(***************************************************************************)

NoDoc == [title |-> <<>>, fallback |-> <<>>, source |-> <<>>, source_key |-> <<>>,
          frontmatter |-> <<>>, body |-> <<>>]

Doc(title, fallback, source, source_key, frontmatter, body) ==
    [title |-> title, fallback |-> fallback, source |-> source, source_key |-> source_key,
     frontmatter |-> frontmatter, body |-> body]

Outcome(fsv, out, result, status, err, steps, doc) ==
    [fs |-> fsv, out |-> out, result |-> result, status |-> status, err |-> err,
     steps |-> steps, doc |-> doc]

\* if out_path.exists() and not force
ShouldSkip(fsv, out_name, force) == fsv[out_name].exists /\ ~force

\* print SKIP; return True
Skipped(fsv, out_name, steps) ==
    Outcome(fsv, Some(out_name), "True", "SKIP", "none", steps, NoDoc)

\* except Exception as e: print FAIL to stderr; return False
Failed(fsv, out_name, err, steps) ==
    Outcome(fsv, Some(out_name), "False", "FAIL", err, steps, NoDoc)

\* an exception that leaves the function
Raised(fsv, out, err, steps) ==
    Outcome(fsv, out, "raised", "none", err, steps, NoDoc)

\* output_dir.mkdir(...); out_path.write_text(full_text); print OK; return True
\* inside the try block.  write_text opens the file for writing, which
\* truncates it, then encodes and writes the text.
WriteOutput(fsv, out_name, b, steps, fault) ==
    LET put(d) == [fsv EXCEPT ![out_name] = File(d)]
        half   == SubSeq(b.full, 1, Len(b.full) \div 2)
        fail(f, done) ==
            Outcome(f, Some(out_name), "False", "FAIL", "write",
                    steps \o b.steps \o done, b.doc)
    IN  CASE fault = "mkdir"  -> fail(fsv, <<"mkdir">>)
          [] fault = "encode" -> fail(put(<<>>), <<"mkdir", "write">>)
          [] fault = "write"  -> fail(put(half), <<"mkdir", "write">>)
          [] fault = "print"  -> fail(put(b.full), <<"mkdir", "write", "print">>)
          [] OTHER            ->
                Outcome(put(b.full), Some(out_name), "True", "OK", "none",
                        steps \o b.steps \o <<"mkdir", "write", "print">>, b.doc)

StripStep(strip) == IF strip THEN <<"strip">> ELSE <<>>

Built(full, steps, doc) == [full |-> full, steps |-> steps, doc |-> doc]

\* src/any2md/converters/docx.py, the text pipeline of the try block: clean,
\* strip links, extract the title, count words, build the frontmatter, concatenate
any2md_docx_text(src, strip) ==
    LET fallback == PathStem(src.name)
        steps    == <<"clean">> \o StripStep(strip) \o <<"title", "frontmatter", "concat">>
        \* full_text = frontmatter + md_text
        concat(md_text, title, fm) ==
            Built(fm \o md_text, steps,
                  Doc(title, fallback, src.name, FmSourceFileKey, fm, md_text))
        \* frontmatter = f"..." with the escaped title and source file
        front(md_text, title) ==
            concat(md_text, title,
                   Frontmatter(escape_yaml_string(title), FmSourceFileKey,
                               escape_yaml_string(src.name), FmWordCountKey,
                               WordCount(md_text), TypeDocx))
        \* title = extract_title(md_text, docx_path.stem)
        titled(md_text) == front(md_text, extract_title(md_text, fallback))
        \* if strip_links_flag: md_text = strip_links(md_text)
        stripped(md1) == titled(IF strip THEN strip_links(md1) ELSE md1)
    IN  stripped(clean_markdown(src.md))

Any2mdDocxTexts == [src \in DocxSources, strip \in BOOLEAN |-> any2md_docx_text(src, strip)]

\* src/any2md/converters/docx.py, convert_docx
any2md_convert_docx(fsv, src, force, strip, fault) ==
    LET pre == <<"name", "exists">>
        \* the call, for the output name and the text its pipeline builds
        run(out_name, b) ==
            IF fault = "exists" THEN Raised(fsv, Some(out_name), "exists", pre)
            ELSE IF ShouldSkip(fsv, out_name, force) THEN Skipped(fsv, out_name, pre)
            ELSE IF fault = "read" THEN Failed(fsv, out_name, "read", pre \o <<"read">>)
            ELSE IF fault = "convert"
                 THEN Failed(fsv, out_name, "convert", pre \o <<"read", "convert">>)
            ELSE WriteOutput(fsv, out_name, b, pre \o <<"read", "convert">>, fault)
    IN  run(OutNameOf[src.name], Any2mdDocxTexts[src, strip])

\* src/mdconv/converters/docx.py, the text pipeline of the try block: extract
\* the title from the library's text, count words, build the frontmatter from
\* the raw values, clean and concatenate, strip links from the whole text
docx_text(src, strip) ==
    LET fallback == PathStem(src.name)
        steps    == <<"title", "frontmatter", "clean", "concat">> \o StripStep(strip)
        \* if strip_links_flag: full_text = strip_links(full_text)
        stripped(title, fm, body, full0) ==
            Built(IF strip THEN strip_links(full0) ELSE full0, steps,
                  Doc(title, fallback, src.name, FmSourceFileKey, fm, body))
        \* full_text = frontmatter + clean_markdown(md_text)
        concat(title, fm, body) == stripped(title, fm, body, fm \o body)
        \* frontmatter = f"..." with the raw title and source file
        front(title) ==
            concat(title,
                   Frontmatter(title, FmSourceFileKey, src.name, FmWordCountKey,
                               WordCount(src.md), TypeDocx),
                   clean_markdown(src.md))
    IN  front(extract_title(src.md, fallback))

DocxTexts == [src \in DocxSources, strip \in BOOLEAN |-> docx_text(src, strip)]

\* src/mdconv/converters/docx.py, convert_docx
convert_docx(fsv, src, force, strip, fault) ==
    LET pre == <<"name", "exists">>
        \* the call, for the output name and the text its pipeline builds
        run(out_name, b) ==
            IF fault = "exists" THEN Raised(fsv, Some(out_name), "exists", pre)
            ELSE IF ShouldSkip(fsv, out_name, force) THEN Skipped(fsv, out_name, pre)
            ELSE IF fault = "read" THEN Failed(fsv, out_name, "read", pre \o <<"read">>)
            ELSE IF fault = "convert"
                 THEN Failed(fsv, out_name, "convert", pre \o <<"read", "convert">>)
            ELSE WriteOutput(fsv, out_name, b, pre \o <<"read", "convert">>, fault)
    IN  run(OutNameOf[src.name], DocxTexts[src, strip])

\* src/mdconv/converters/pdf.py, the text pipeline of the try block
pdf_text(src, strip) ==
    LET fallback == PathStem(src.name)
        steps    == <<"clean">> \o StripStep(strip) \o <<"title", "frontmatter", "concat">>
        \* full_text = frontmatter + md_text
        concat(md_text, title, fm) ==
            Built(fm \o md_text, steps,
                  Doc(title, fallback, src.name, FmSourceFileKey, fm, md_text))
        \* frontmatter = f"..." with the escaped title and source file
        front(md_text, title) ==
            concat(md_text, title,
                   Frontmatter(escape_yaml_string(title), FmSourceFileKey,
                               escape_yaml_string(src.name), FmPagesKey,
                               src.pages, TypePdf))
        \* title = extract_title(md_text, pdf_path.stem)
        titled(md_text) == front(md_text, extract_title(md_text, fallback))
        \* if strip_links_flag: md_text = strip_links(md_text)
        stripped(md1) == titled(IF strip THEN strip_links(md1) ELSE md1)
    IN  stripped(clean_markdown(src.md))

PdfTexts == [src \in PdfSources, strip \in BOOLEAN |-> pdf_text(src, strip)]

\* src/mdconv/converters/pdf.py, convert_pdf
convert_pdf(fsv, src, force, strip, fault) ==
    LET pre == <<"name", "exists">>
        \* the call, for the output name and the text its pipeline builds
        run(out_name, b) ==
            IF fault = "exists" THEN Raised(fsv, Some(out_name), "exists", pre)
            ELSE IF ShouldSkip(fsv, out_name, force) THEN Skipped(fsv, out_name, pre)
            ELSE IF fault = "read" THEN Failed(fsv, out_name, "read", pre \o <<"read">>)
            ELSE IF fault = "convert"
                 THEN Failed(fsv, out_name, "convert", pre \o <<"read", "convert">>)
            ELSE WriteOutput(fsv, out_name, b, pre \o <<"read", "convert">>, fault)
    IN  run(OutNameOf[src.name], PdfTexts[src, strip])

SchemeHttp == <<"h","t","t","p">>
SchemeHttps == <<"h","t","t","p","s">>

\* Python truthiness of an optional string: neither None nor ""
Truthy(opt) == opt # None /\ opt[1] # <<>>

\* the arguments of convert_html
HtmlPaths == {None} \cup {Some(h) : h \in HtmlSources}
SourceUrls == {None} \cup {Some(u) : u \in Urls}

\* the source_url arguments of direct convert_html calls (the URL entry point
\* passes the others)
DirectSourceUrls == {None} \cup {Some(u) : u \in {v \in Urls : UrlScheme(v) # SchemeHttp}}
HtmlContents == {None} \cup {Some(d) : d \in {e \in HtmlDocs : e.extract = None}}

\* src/mdconv/converters/html.py, steps 2 to 11 of the try block, for the
\* document docv that step 1 acquired.  The branches for a call with neither
\* source_url nor html_path ("untitled", "unknown") cannot be reached: such a
\* call raises before the try block.
html_text(html_path, source_url, docv, strip) ==
    LET use_url  == Truthy(source_url)
        md0      == IF Truthy(docv.extract) THEN docv.extract[1] ELSE docv.markdownify
        fallback == IF use_url THEN UrlNetloc(source_url[1])
                    ELSE PathStem(html_path[1].name)
        source   == IF use_url THEN source_url[1] ELSE html_path[1].name
        key      == IF use_url THEN FmSourceUrlKey ELSE FmSourceFileKey
        steps    == <<"clean">> \o StripStep(strip) \o <<"title", "frontmatter", "concat">>
        \* full_text = frontmatter + md_text
        concat(md_text, title, fb, fm) ==
            Built(fm \o md_text, steps, Doc(title, fb, source, key, fm, md_text))
        \* frontmatter = f"..." with the escaped title and source
        front(md_text, title, fb) ==
            concat(md_text, title, fb,
                   Frontmatter(escape_yaml_string(title), key,
                               escape_yaml_string(source), FmWordCountKey,
                               WordCount(md_text), TypeHtml))
        \* title = extract_title(md_text, fallback_title)
        titled(md_text, fb) == front(md_text, extract_title(md_text, fb), fb)
        \* if strip_links_flag: md_text = strip_links(md_text)
        stripped(md1) == titled(IF strip THEN strip_links(md1) ELSE md1, fallback)
    IN  stripped(clean_markdown(md0))

HtmlTexts ==
    [html_path \in HtmlPaths, source_url \in SourceUrls, docv \in HtmlDocs, strip \in BOOLEAN |->
        IF Truthy(source_url) \/ html_path # None
        THEN html_text(html_path, source_url, docv, strip)
        ELSE Built(<<>>, <<>>, NoDoc)]

\* src/mdconv/converters/html.py, convert_html
convert_html(fsv, html_path, source_url, html_content, force, strip, fault) ==
    LET use_url  == Truthy(source_url)
        docv     == IF html_content # None THEN html_content[1] ELSE html_path[1].doc
        pre      == <<"name", "exists">>
        acquire  == IF html_content = None THEN <<"read">> ELSE <<>>
        \* the call, for the output name and the text its pipeline builds
        run(out_name, b) ==
            IF fault = "exists" THEN Raised(fsv, Some(out_name), "exists", pre)
            ELSE IF ShouldSkip(fsv, out_name, force) THEN Skipped(fsv, out_name, pre)
            ELSE IF html_content = None /\ html_path = None
                 THEN Failed(fsv, out_name, "value", pre \o <<"read">>)
            ELSE IF html_content = None /\ fault = "read"
                 THEN Failed(fsv, out_name, "read", pre \o <<"read">>)
            ELSE IF fault = "convert"
                 THEN Failed(fsv, out_name, "convert", pre \o acquire \o <<"convert">>)
            ELSE WriteOutput(fsv, out_name, b, pre \o acquire \o <<"convert">>, fault)
    IN  IF ~use_url /\ html_path = None THEN Raised(fsv, None, "value", <<"name">>)
        ELSE run(IF use_url THEN UrlOutNameOf[source_url[1]]
                 ELSE OutNameOf[html_path[1].name],
                 HtmlTexts[html_path, source_url, docv, strip])

UrlSchemeOf == [u \in Urls |-> UrlScheme(u)]

\* what trafilatura.fetch_url can do: return a page, return None, raise
NetOutcomes ==
    { [kind |-> k, doc |-> CHOOSE d \in HtmlDocs : d.extract # None] :
        k \in {"page", "none", "raise"} }

SchemeFtp == <<"f","t","p">>

\* fetch_url with a scheme check that lets ftp through
fetch_url_allows_ftp(url, net) ==
    IF UrlSchemeOf[url] \notin {SchemeHttp, SchemeHttps, SchemeFtp}
    THEN [html |-> None, error |-> "unsupported_scheme", fetched |-> FALSE]
    ELSE CASE net.kind = "raise" -> [html |-> None, error |-> "fetch_error", fetched |-> TRUE]
           [] net.kind = "none"  -> [html |-> None, error |-> "fetch_failed", fetched |-> TRUE]
           [] OTHER              -> [html |-> Some(net.doc), error |-> "none", fetched |-> TRUE]

\* src/mdconv/converters/html.py, fetch_url: (html, error) and whether
\* trafilatura.fetch_url was called
fetch_url(url, net) ==
    IF UrlSchemeOf[url] \notin {SchemeHttp, SchemeHttps}
    THEN [html |-> None, error |-> "unsupported_scheme", fetched |-> FALSE]
    ELSE CASE net.kind = "raise" -> [html |-> None, error |-> "fetch_error", fetched |-> TRUE]
           [] net.kind = "none"  -> [html |-> None, error |-> "fetch_failed", fetched |-> TRUE]
           [] OTHER              -> [html |-> Some(net.doc), error |-> "none", fetched |-> TRUE]

\* The URL entry point (section 4.4 of the specification): fetch_url, then on
\* an error report FAIL without converting, else convert_html on the page.
convert_url(fsv, url, force, strip, net, fault) ==
    LET f == fetch_url(url, net)
        \* the steps of the entry point come before those of convert_html
        after_fetch(o) == [o EXCEPT !.steps = <<"scheme", "fetch">> \o o.steps]
    IN  IF f.error # "none"
        THEN Outcome(fsv, None, "False", "FAIL", f.error,
                     <<"scheme">> \o (IF f.fetched THEN <<"fetch">> ELSE <<>>), NoDoc)
        ELSE after_fetch(convert_html(fsv, None, Some(url), f.html, force, strip, fault))

(***************************************************************************)
(* The state machine: a run is a sequence of conversion calls into one     *)
(* output directory.                                                       *)
(***************************************************************************)

\* the longest run of calls explored
MaxCalls == 2

NoCall ==
    [op |-> "none", force |-> FALSE, url |-> None, fetched |-> FALSE,
     out |-> None, pre |-> Absent, changed |-> FALSE,
     result |-> "none", status |-> "none", err |-> "none", steps |-> <<>>, doc |-> NoDoc]

\* the output directory at the start of a run holds one older file, at the
\* path the DOCX and PDF sources convert to
OldNames == {OutNameOf[s.name] : s \in DocxSources}

NoProbe == [fn |-> "none", arg |-> <<>>, arg2 |-> <<>>, out |-> <<>>, out2 |-> <<>>]

Init ==
    /\ fs = [n \in OutNames |-> IF n \in OldNames THEN File(OldData) ELSE Absent]
    /\ calls = 0
    /\ last = NoCall
    /\ probe = NoProbe

\* one call ended with outcome o
Commit(op, o, force, url, fetched) ==
    /\ calls < MaxCalls
    /\ fs' = o.fs
    /\ calls' = calls + 1
    /\ last' = [op |-> op, force |-> force, url |-> url,
                fetched |-> fetched, out |-> o.out,
                pre |-> IF o.out = None THEN Absent ELSE fs[o.out[1]],
                changed |-> (o.fs # fs),
                result |-> o.result, status |-> o.status, err |-> o.err,
                steps |-> o.steps, doc |-> o.doc]
    /\ UNCHANGED probe

ConvertDocx ==
    \E src \in DocxSources, force \in BOOLEAN, strip \in BOOLEAN, fault \in Faults :
        Commit("convert_docx", convert_docx(fs, src, force, strip, fault),
               force, None, FALSE)

ConvertDocxAny2md ==
    \E src \in DocxSources, force \in BOOLEAN, strip \in BOOLEAN, fault \in Faults :
        Commit("any2md_convert_docx", any2md_convert_docx(fs, src, force, strip, fault),
               force, None, FALSE)

ConvertPdf ==
    \E src \in PdfSources, force \in BOOLEAN, strip \in BOOLEAN, fault \in Faults :
        Commit("convert_pdf", convert_pdf(fs, src, force, strip, fault),
               force, None, FALSE)

ConvertHtml ==
    \E html_path \in HtmlPaths, source_url \in DirectSourceUrls, html_content \in HtmlContents,
       force \in BOOLEAN, strip \in BOOLEAN, fault \in Faults :
        Commit("convert_html",
               convert_html(fs, html_path, source_url, html_content, force, strip, fault),
               force, source_url, FALSE)

ConvertUrl ==
    \E url \in Urls, net \in NetOutcomes,
       force \in BOOLEAN, strip \in BOOLEAN, fault \in Faults :
        Commit("convert_url", convert_url(fs, url, force, strip, net, fault),
               force, Some(url), fetch_url(url, net).fetched)

Next ==
    \/ ConvertDocx
    \/ ConvertDocxAny2md
    \/ ConvertPdf
    \/ ConvertHtml
    \/ ConvertUrl

Spec == Init /\ [][Next]_vars

(***************************************************************************)
(* Properties of the conversion calls                                      *)
(***************************************************************************)

ConverterOps == {"convert_docx", "any2md_convert_docx", "convert_pdf", "convert_html"}

\* position of step x in the step list s, 0 when it did not run
Pos(s, x) == IF \E i \in 1..Len(s) : s[i] = x THEN CHOOSE i \in 1..Len(s) : s[i] = x ELSE 0

IsPrefix(p, t) == Len(p) <= Len(t) /\ SubSeq(t, 1, Len(p)) = p

\* C1: a converter call with force=False whose output path already exists
\* returns True, reports SKIP, leaves the existing file unchanged and neither
\* reads the source, calls a conversion library nor writes.
SkipWhenOutputExists ==
    (/\ last.op \in ConverterOps
     /\ last.out # None
     /\ ~last.force
     /\ last.pre.exists)
    => /\ last.result = "True"
       /\ last.status = "SKIP"
       /\ fs[last.out[1]] = last.pre
       /\ ~last.changed
       /\ \A i \in 1..Len(last.steps) : last.steps[i] \in {"name", "exists"}

\* C2: every converter call ends by returning a boolean; no exception leaves it.
AlwaysReturnsBoolean ==
    last.op \in ConverterOps => last.result \in {"True", "False"}

\* C3: whenever a converter returns False, the file at the derived output
\* path is exactly as it was before the call.
FailureLeavesOutputUntouched ==
    (last.op \in ConverterOps /\ last.result = "False" /\ last.out # None)
    => fs[last.out[1]] = last.pre

PipelineOrder ==
    (last.op \in ConverterOps /\ last.status = "OK")
    => /\ 0 < Pos(last.steps, "clean")
       /\ Pos(last.steps, "clean") < Pos(last.steps, "title")
       /\ Pos(last.steps, "title") < Pos(last.steps, "frontmatter")
       /\ Pos(last.steps, "frontmatter") < Pos(last.steps, "concat")
       /\ Pos(last.steps, "concat") < Pos(last.steps, "write")
       /\ Pos(last.steps, "strip") # 0
            => /\ Pos(last.steps, "clean") < Pos(last.steps, "strip")
               /\ Pos(last.steps, "strip") < Pos(last.steps, "title")
       /\ last.doc.title = extract_title(last.doc.body, last.doc.fallback)
       /\ fs[last.out[1]].data = last.doc.frontmatter \o last.doc.body

\* C6: after every successful conversion the written file starts with the
\* frontmatter block whose title and source values are the escape_yaml_string
\* images of the raw title and source.
FrontmatterEscaped ==
    (last.op \in ConverterOps /\ last.status = "OK")
    => IsPrefix(FmFence
                  \o FmTitleKey \o escape_yaml_string(last.doc.title) \o FmQuoteEnd
                  \o last.doc.source_key \o escape_yaml_string(last.doc.source)
                  \o FmQuoteEnd,
                fs[last.out[1]].data)

(***************************************************************************)
(* The text utilities as functions: a probe draws an input and applies the *)
(* function to it.                                                         *)
(***************************************************************************)

\* all texts over an alphabet up to a length
Texts(alphabet, n) == UNION {[1..k -> alphabet] : k \in 0..n}

Probe(fn, arg, arg2) == [fn |-> fn, arg |-> arg, arg2 |-> arg2, out |-> <<>>, out2 |-> <<>>]

Idle ==
    /\ fs = [n \in OutNames |-> Absent]
    /\ calls = 0
    /\ last = NoCall

\* ---- clean_markdown ----

MaxCleanLen == 6

CleanAlphabet == {"a", " ", "\t", "\n"}

CleanInputs == Texts(CleanAlphabet, MaxCleanLen)

InitClean == Idle /\ probe \in {Probe("text", t, <<>>) : t \in CleanInputs}

CleanMarkdown ==
    /\ probe.fn = "text"
    /\ probe' = [probe EXCEPT !.fn = "clean_markdown", !.out = clean_markdown(probe.arg)]
    /\ UNCHANGED <<fs, calls, last>>

NextClean == CleanMarkdown

SpecClean == InitClean /\ [][NextClean]_vars

\* C8: the output of clean_markdown has no run of 4 or more newlines, no line
\* that ends in a space or tab, and ends with exactly one newline.
CleanOutputNormalised ==
    probe.fn = "clean_markdown"
    => LET o == probe.out
       IN  /\ \A i \in 1..(Len(o) - 3) :
                ~(o[i] = "\n" /\ o[i+1] = "\n" /\ o[i+2] = "\n" /\ o[i+3] = "\n")
           /\ \A i \in 1..Len(o) :
                IsHSpace(o[i]) => ~(i = Len(o) \/ o[i+1] = "\n")
           /\ Len(o) >= 1 /\ o[Len(o)] = "\n"
           /\ Len(o) >= 2 => o[Len(o) - 1] # "\n"

\* ---- sanitize_filename, url_to_filename ----

MaxNameLen == 4

NameAlphabet == {"a", " ", "_", ",", "."}

\* a file name proper: not empty and not a directory reference
IsFileName(n) == n \notin {<<>>, <<".">>, <<".", ".">>}

\* the source file names tried
NameInputs == {n \in Texts(NameAlphabet, MaxNameLen) : IsFileName(n)}

\* URLs scheme://host/path?query built from a few parts
UrlInputs ==
    { scheme \o <<":", "/", "/">> \o host \o path \o query :
        scheme \in {SchemeHttp, SchemeHttps, SchemeFtp},
        host   \in {<<"a", ".", "b">>, <<"a", "_", "b">>, <<"a", "b">>},
        path   \in {<<>>, <<"/">>, <<"/", "c">>, <<"/", "c", ".", "d">>, <<"/", "c", "/", "d">>},
        query  \in {<<>>, <<"?", "q">>} }

InitNames ==
    /\ Idle
    /\ probe \in {Probe("name", n, <<>>) : n \in NameInputs}
                    \cup {Probe("url", u, <<>>) : u \in UrlInputs}

SanitizeFilename ==
    /\ probe.fn = "name"
    /\ probe' = [probe EXCEPT !.fn = "sanitize_filename", !.out = sanitize_filename(probe.arg)]
    /\ UNCHANGED <<fs, calls, last>>

\* the output name fed back in as a source name
SanitizeAgain ==
    /\ probe.fn = "sanitize_filename"
    /\ probe' = [probe EXCEPT !.fn = "sanitize_again", !.out2 = sanitize_filename(probe.out)]
    /\ UNCHANGED <<fs, calls, last>>

UrlToFilename ==
    /\ probe.fn = "url"
    /\ probe' = [probe EXCEPT !.fn = "url_to_filename", !.out = url_to_filename(probe.arg)]
    /\ UNCHANGED <<fs, calls, last>>

NextNames == SanitizeFilename \/ SanitizeAgain \/ UrlToFilename

SpecNames == InitNames /\ [][NextNames]_vars

\* C9: sanitize_filename applied to its own output returns that output.
SanitizeIdempotent ==
    probe.fn = "sanitize_again" => probe.out2 = probe.out

\* C7 as stated: two distinct inputs never derive the same output filename.
NamesCollisionFree ==
    /\ probe.fn = "sanitize_filename"
        => \A m \in NameInputs : m # probe.arg => sanitize_filename(m) # probe.out
    /\ probe.fn = "url_to_filename"
        => \A u \in UrlInputs : u # probe.arg => url_to_filename(u) # probe.out

\* the extension pathlib splits from the stem
NameSuffix(n) == SubSeq(n, Len(PathStem(n)) + 1, Len(n))

\* the stem is already in sanitized form: no space, no removed character, no
\* repeated, leading or trailing underscore
StemIsPlain(n) ==
    LET st == PathStem(n)
    IN  /\ \A i \in 1..Len(st) : st[i] \notin RemovedChars \cup {" "}
        /\ \A i \in 1..(Len(st) - 1) : ~(st[i] = "_" /\ st[i+1] = "_")
        /\ st # <<>> => (st[1] # "_" /\ st[Len(st)] # "_")

\* the other names C7 as amended compares a name with
PlainPeers(n) ==
    {m \in NameInputs :
        /\ m # n
        /\ IsFileName(m)
        /\ NameSuffix(m) = NameSuffix(n)
        /\ StemIsPlain(m)}

\* C7 as amended: two distinct source file names with the same extension
\* whose stems are already in sanitized form derive distinct output names.
PlainNamesDistinct ==
    (probe.fn = "sanitize_filename" /\ IsFileName(probe.arg) /\ StemIsPlain(probe.arg))
    => \A m \in PlainPeers(probe.arg) : sanitize_filename(m) # probe.out

\* a plain name with an extension was sanitized, and another plain name
\* shares its extension
PlainNameSanitized ==
    /\ probe.fn = "sanitize_filename"
    /\ IsFileName(probe.arg)
    /\ StemIsPlain(probe.arg)
    /\ NameSuffix(probe.arg) # <<>>
    /\ PlainPeers(probe.arg) # {}

\* ---- extract_title ----

MaxTitleLines == 3

TitleLines ==
    { <<"#">>,
      <<"#", " ">>,
      <<"#", "#", " ", "h", "e", "a", "d", "i", "n", "g", " ", "l", "i", "n", "e">>,
      <<"#", "#", "#", "#", " ", "d", "e", "e", "p", " ", "h", "e", "a", "d", "i", "n", "g">>,
      <<"#", " ", "s", "h", "_", "o", "r", "t">>,
      <<"#", " ", "*", "*", "b", "o", "l", "d", "_", "t", "i", "t", "l", "e", "*", "*", "x">>,
      <<"p", "l", "a", "i", "n", " ", "b", "o", "d", "y", " ", "t", "e", "x", "t">> }

\* "\n".join(lines)
RECURSIVE JoinLines(_)
JoinLines(ls) ==
    IF Len(ls) = 0 THEN <<>>
    ELSE IF Len(ls) = 1 THEN ls[1]
    ELSE ls[1] \o <<"\n">> \o JoinLines(Tail(ls))

TitleInputs == {JoinLines(ls) : ls \in Texts(TitleLines, MaxTitleLines)}

TitleFallbacks == { <<"m", "y", "_", "f", "i", "l", "e">>, <<"_", "f", "b", " ">> }

InitTitle == Idle /\ probe \in {Probe("text", t, f) : t \in TitleInputs, f \in TitleFallbacks}

ExtractTitle ==
    /\ probe.fn = "text"
    /\ probe' = [probe EXCEPT !.fn = "extract_title",
                              !.out = extract_title(probe.arg, probe.arg2)]
    /\ UNCHANGED <<fs, calls, last>>

NextTitle == ExtractTitle

SpecTitle == InitTitle /\ [][NextTitle]_vars

\* a heading line as C10 describes it: 1 to 3 "#" at the start of a line,
\* then spaces or tabs, then text, all on that line; the position where the
\* text starts, 0 when line i is no such line
HeadingTextStart(t, i) ==
    LET h  == RunLen(t, i, {"#"})
        ws == i + h
        w  == RunLen(t, ws, HSpaceChars)
    IN  IF h \in 1..3 /\ w >= 1 /\ ws + w <= Len(t) /\ t[ws + w] # "\n"
        THEN ws + w ELSE 0

HeadingLines(t) == {i \in LineStarts(t) : HeadingTextStart(t, i) # 0}

\* the result C10 describes
TitleOfFirstHeadingLine(t, fallback) ==
    LET i     == CHOOSE i \in HeadingLines(t) : \A j \in HeadingLines(t) : i <= j
        g     == HeadingTextStart(t, i)
        title == CleanTitle(SubSeq(t, g, LineEnd(t, g)))
    IN  IF HeadingLines(t) # {} /\ Len(title) > MinTitleLen
        THEN title
        ELSE TitleFallback(fallback)

\* C10: extract_title returns the text of the first level 1-3 heading line,
\* emphasis markers removed, when it is longer than 10 characters, and else
\* the fallback with underscores replaced by spaces; a returned heading title
\* is text of the heading line itself.
TitleFromHeadingLine ==
    probe.fn = "extract_title"
    => probe.out = TitleOfFirstHeadingLine(probe.arg, probe.arg2)

====
